---- MODULE Spec2Model ----
(***************************************************************************)
(* A model of the Django log report tool: the line parser (LogParser), the *)
(* per-file aggregation, the worker-pool fan-out and the merge             *)
(* (LogProcessor), the report (HandlersReport) and the entry point (main). *)
(*                                                                         *)
(* Text is modelled as sequences of one-character strings, so that the two *)
(* regular expressions are matched character by character.  A Python dict  *)
(* is a function whose DOMAIN is its key set.                              *)
(***************************************************************************)
EXTENDS Integers, Sequences, FiniteSets, TLC

VARIABLES
    \* parse_log_line on one line
    line_in, data_out, parsed,
    \* _process_single_file over one source, line by line
    lines, line_no, handlers_data,
    \* _merge_results over a list of partial aggregates
    partial_results, merge_no, merged_data, merge_out,
    \* HandlersReport.generate
    log_statistics, report, generated,
    \* the file system and the command line
    fs, file_paths,
    \* LogProcessor: its two attributes
    use_multiprocessing, num_workers,
    \* where main and process_files are
    pc,
    \* the pool: the next task to hand out, the tasks being worked on, the
    \* order in which results arrived, the result handler thread, and the
    \* MapResult (its _number_left, _success and _value)
    task_next, running, arrived, handler_alive, number_left, map_success, map_value,
    \* process_files: the list of partial aggregates, what it returned or raised
    results, returned, raised,
    \* main: what it printed and the code it returned
    stdout, stderr, exit_code

parseVars == <<line_in, data_out, parsed>>
lineVars == <<lines, line_no, handlers_data>>
mergeVars == <<partial_results, merge_no, merged_data, merge_out>>
reportVars == <<log_statistics, report, generated>>
poolVars == <<task_next, running, arrived, handler_alive, number_left, map_success, map_value>>
sysVars == <<fs, file_paths, use_multiprocessing, num_workers, pc, poolVars,
             results, returned, raised, stdout, stderr, exit_code>>
vars == <<parseVars, lineVars, mergeVars, reportVars, sysVars>>

(***************************************************************************)
(* Bounds of the model.                                                    *)
(***************************************************************************)
MaxLen == 3
MaxPartials == 3
MaxRows == 3
MaxFiles == 2
MaxWorkers == 2

(***************************************************************************)
(* Characters.                                                             *)
(***************************************************************************)
\* The printable ASCII characters in code point order, from 32 (space).  The
\* grave accent (96) cannot be written in a string here; no text below uses it.
Ascii == <<" ", "!", "\"", "#", "$", "%", "&", "'", "(", ")", "*", "+", ",", "-", ".", "/",
           "0", "1", "2", "3", "4", "5", "6", "7", "8", "9", ":", ";", "<", "=", ">", "?",
           "@", "A", "B", "C", "D", "E", "F", "G", "H", "I", "J", "K", "L", "M", "N", "O",
           "P", "Q", "R", "S", "T", "U", "V", "W", "X", "Y", "Z", "[", "\\", "]", "^", "_",
           "GRAVE", "a", "b", "c", "d", "e", "f", "g", "h", "i", "j", "k", "l", "m", "n", "o",
           "p", "q", "r", "s", "t", "u", "v", "w", "x", "y", "z", "{", "|", "}", "~">>

\* ord(c): tab and newline sort below every printable character.
Ord(c) == IF c = "\t" THEN 9
          ELSE IF c = "\n" THEN 10
          ELSE 31 + (CHOOSE i \in 1..Len(Ascii) : Ascii[i] = c)

\* \d
DigitChars == {"0", "1", "2", "3", "4", "5", "6", "7", "8", "9"}

\* \w
WordChars == {Ascii[i] : i \in 17..26} \cup {Ascii[i] : i \in 34..59}
             \cup {Ascii[i] : i \in 66..91} \cup {"_"}

\* \s
Whitespace == {" ", "\t", "\n"}

SetMin(S) == CHOOSE x \in S : \A y \in S : x <= y
SetMax(S) == CHOOSE x \in S : \A y \in S : y <= x

(***************************************************************************)
(* Regular expression steps.  Each takes the position p where it starts    *)
(* (0: an earlier step failed) and gives the position after its match, or  *)
(* 0 when it does not match.                                               *)
(***************************************************************************)
RECURSIVE RunEnd(_, _, _)
\* The position after the longest run of characters of C starting at p.
RunEnd(s, p, C) == IF p <= Len(s) /\ s[p] \in C THEN RunEnd(s, p + 1, C) ELSE p

RECURSIVE RunEndNot(_, _, _)
\* The position after the longest run of characters outside C starting at p.
RunEndNot(s, p, C) == IF p <= Len(s) /\ s[p] \notin C THEN RunEndNot(s, p + 1, C) ELSE p

\* \d{n}
Digits(s, p, n) ==
    IF p > 0 /\ p + n - 1 <= Len(s) /\ (\A k \in p..(p + n - 1) : s[k] \in DigitChars)
    THEN p + n ELSE 0

\* a literal
Literal(s, p, w) ==
    IF p > 0 /\ p + Len(w) - 1 <= Len(s) /\ (\A k \in 1..Len(w) : s[p + k - 1] = w[k])
    THEN p + Len(w) ELSE 0

\* \s+
Spaces(s, p) ==
    IF p > 0 /\ p <= Len(s) /\ s[p] \in Whitespace THEN RunEnd(s, p, Whitespace) ELSE 0

\* \w+
Word(s, p) ==
    IF p > 0 /\ p <= Len(s) /\ s[p] \in WordChars THEN RunEnd(s, p, WordChars) ELSE 0

RECURSIVE DottedWords(_, _)
\* (?:\.\w+)*
DottedWords(s, p) ==
    IF p > 0 /\ p <= Len(s) /\ s[p] = "." /\ Word(s, p + 1) # 0
    THEN DottedWords(s, Word(s, p + 1)) ELSE p

(***************************************************************************)
(* LogParser.BASE_PATTERN                                                  *)
(***************************************************************************)
\* DEBUG|INFO|WARNING|ERROR|CRITICAL, in the order of the alternation
LEVELS == <<"DEBUG", "INFO", "WARNING", "ERROR", "CRITICAL">>

LevelToken == [DEBUG |-> <<"D", "E", "B", "U", "G">>,
               INFO |-> <<"I", "N", "F", "O">>,
               WARNING |-> <<"W", "A", "R", "N", "I", "N", "G">>,
               ERROR |-> <<"E", "R", "R", "O", "R">>,
               CRITICAL |-> <<"C", "R", "I", "T", "I", "C", "A", "L">>]

DjangoRoot == <<"d", "j", "a", "n", "g", "o", ".">>

\* DjangoLogComponent.REQUEST.value
REQUEST == <<"d", "j", "a", "n", "g", "o", ".", "r", "e", "q", "u", "e", "s", "t">>

\* parse_log_line's None
None == [none |-> TRUE]

\* \d{4}-\d{2}-\d{2}\s+\d{2}:\d{2}:\d{2},\d{3}
TimestampEnd(s) ==
    LET date == Digits(s, Literal(s, Digits(s, Literal(s, Digits(s, 1, 4), <<"-">>), 2), <<"-">>), 2)
        hour == Digits(s, Spaces(s, date), 2)
        mins == Digits(s, Literal(s, hour, <<":">>), 2)
        secs == Digits(s, Literal(s, mins, <<":">>), 2)
    IN  Digits(s, Literal(s, secs, <<",">>), 3)

\* The alternatives of the level group that match at p and are followed by \s+.
LevelsAt(s, p) == {i \in 1..Len(LEVELS) : Spaces(s, Literal(s, p, LevelToken[LEVELS[i]])) # 0}

\* django\.\w+(?:\.\w+)*
ComponentEnd(s, p) == DottedWords(s, Word(s, Literal(s, p, DjangoRoot)))

\* :\s+(?P<message>.+) from the colon at p: where the message starts.  \s+ is
\* greedy and gives characters back until one that "." accepts follows it.
MessageStart(s, p) ==
    LET q == Literal(s, p, <<":">>)
        e == Spaces(s, q)
        C == IF e = 0 THEN {} ELSE {j \in (q + 1)..e : j <= Len(s) /\ s[j] # "\n"}
    IN  IF C = {} THEN 0 ELSE SetMax(C)

\* "." stops at a line break.
MessageEnd(s, p) == RunEndNot(s, p, {"\n"})

\* BASE_PATTERN.match(line).groupdict(), or None.  The groups are matched left
\* to right; each step hands the positions found so far to the next.
BaseMatch(line) ==
    LET Groups(ts, level, cp, ce, ms) ==
            IF ms = 0 THEN None
            ELSE [timestamp |-> SubSeq(line, 1, ts - 1),
                  level |-> level,
                  component |-> SubSeq(line, cp, ce - 1),
                  message |-> SubSeq(line, ms, MessageEnd(line, ms) - 1)]
        Message(ts, level, cp, ce) == Groups(ts, level, cp, ce, MessageStart(line, ce))
        Component(ts, level, cp) == Message(ts, level, cp, ComponentEnd(line, cp))
        Level(ts, lp, level) ==
            Component(ts, level, Spaces(line, Literal(line, lp, LevelToken[level])))
        Levels(ts, lp, lv) == IF lv = {} THEN None ELSE Level(ts, lp, LEVELS[SetMin(lv)])
        Timestamp(ts, lp) == Levels(ts, lp, IF lp = 0 THEN {} ELSE LevelsAt(line, lp))
    IN  Timestamp(TimestampEnd(line), Spaces(line, TimestampEnd(line)))

(***************************************************************************)
(* LogParser.REQUEST_PATTERN                                               *)
(***************************************************************************)
\* GET|POST|PUT|DELETE|PATCH
METHODS == {<<"G", "E", "T">>, <<"P", "O", "S", "T">>, <<"P", "U", "T">>,
            <<"D", "E", "L", "E", "T", "E">>, <<"P", "A", "T", "C", "H">>}

ErrorToken == <<"E", "r", "r", "o", "r", ":">>

\* \s+(/[^\s]+) after a keyword that ends before p: the path's [start, end), or <<>>.
PathAfter(s, p) ==
    LET q == Spaces(s, p)
        r == IF Literal(s, q, <<"/">>) = 0 THEN 0 ELSE RunEndNot(s, q + 1, Whitespace)
    IN  IF r > q + 1 THEN <<q, r>> ELSE <<>>

\* The match of the pattern that starts at position i: the first alternative
\* (a method), then the second (Error:); <<>> when neither matches there.
RequestMatchAt(s, i) ==
    LET FirstOf(byMethod) ==
            IF byMethod # {} THEN CHOOSE x \in byMethod : TRUE
            ELSE PathAfter(s, Literal(s, i, ErrorToken))
    IN  FirstOf({PathAfter(s, Literal(s, i, m)) : m \in METHODS} \ {<<>>})

\* REQUEST_PATTERN.search(message): the handler of the leftmost match, or <<>>.
RequestSearch(message) ==
    LET Group(m) == SubSeq(message, m[1], m[2] - 1)
        Leftmost(hits) ==
            IF hits = {} THEN <<>> ELSE Group(RequestMatchAt(message, SetMin(hits)))
    IN  Leftmost({i \in 1..Len(message) : RequestMatchAt(message, i) # <<>>})

(***************************************************************************)
(* LogParser.parse_log_line                                                *)
(***************************************************************************)
ParseLogLine(line) ==
    LET WithHandler(data, handler) ==
            IF handler # <<>> THEN data @@ [handler |-> handler] ELSE data
        Parsed(data) ==
            IF data = None THEN None
            ELSE IF data.component = REQUEST
                 THEN WithHandler(data, RequestSearch(data.message))
                 ELSE data
    IN  Parsed(BaseMatch(line))

(***************************************************************************)
(* Sample text: the parts of log lines and the lines built from them.      *)
(***************************************************************************)
TS1 == <<"2", "0", "2", "4", "-", "0", "3", "-", "2", "8", " ", "1", "0", ":", "1", "5", ":", "3", "0", ",", "1", "2", "3">>
TS2 == <<"2", "0", "2", "4", "-", "0", "3", "-", "2", "8", " ", "1", "0", ":", "1", "5", ":", "3", "1", ",", "4", "5", "6">>

DB == <<"d", "j", "a", "n", "g", "o", ".", "d", "b", ".", "b", "a", "c", "k", "e", "n", "d", "s">>

INVALID == <<"I", "N", "V", "A", "L", "I", "D">>

USERS == <<"/", "a", "p", "i", "/", "u", "s", "e", "r", "s", "/">>
ADMIN == <<"/", "a", "d", "m", "i", "n", "/">>

\* GET /api/users/
MSG_GET_USERS == <<"G", "E", "T", " ">> \o USERS
\* Error: /api/users/
MSG_ERR_USERS == ErrorToken \o <<" ">> \o USERS
\* POST /admin/ 201
MSG_POST_ADMIN == <<"P", "O", "S", "T", " ">> \o ADMIN \o <<" ", "2", "0", "1">>
\* DELETE /api/users/
MSG_DELETE_USERS == <<"D", "E", "L", "E", "T", "E", " ">> \o USERS
\* Internal Server Error
MSG_NO_PATH == <<"I", "n", "t", "e", "r", "n", "a", "l", " ", "S", "e", "r", "v", "e", "r", " ", "E", "r", "r", "o", "r">>
\* Not a log line at all
FREE_TEXT == <<"N", "o", "t", " ", "a", " ", "l", "o", "g", " ", "l", "i", "n", "e", " ", "a", "t", " ", "a", "l", "l">>

NL == <<"\n">>

\* A line as a file yields it: "<timestamp> <level> <component>: <message>\n"
LogLine(ts, level, component, message) ==
    ts \o <<" ">> \o level \o <<" ">> \o component \o <<":", " ">> \o message \o NL

\* Request records with a handler path: what they are expected to count as.
REQ_INFO_USERS == LogLine(TS1, LevelToken.INFO, REQUEST, MSG_GET_USERS)
REQ_ERROR_USERS == LogLine(TS2, LevelToken.ERROR, REQUEST, MSG_ERR_USERS)
REQ_DEBUG_ADMIN == LogLine(TS1, LevelToken.DEBUG, REQUEST, MSG_POST_ADMIN)
\* the last line of a file that does not end in a line break
REQ_CRITICAL_USERS_EOF ==
    TS2 \o <<" ">> \o LevelToken.CRITICAL \o <<" ">> \o REQUEST \o <<":", " ">> \o MSG_DELETE_USERS

RequestLines == {REQ_INFO_USERS, REQ_ERROR_USERS, REQ_DEBUG_ADMIN, REQ_CRITICAL_USERS_EOF}

\* Lines that do not match the record format: free text, an empty line, an
\* unknown severity token.
UnmatchedLines == {FREE_TEXT \o NL, NL, LogLine(TS1, INVALID, REQUEST, MSG_GET_USERS)}

\* A record of another component whose message holds a method and a path.
NonRequestLines == {LogLine(TS1, LevelToken.DEBUG, DB, MSG_GET_USERS)}

\* A request record whose message holds no path.
NoPathLines == {LogLine(TS2, LevelToken.WARNING, REQUEST, MSG_NO_PATH)}

LineSet == RequestLines \cup UnmatchedLines \cup NonRequestLines \cup NoPathLines

\* The sequences over S of length at most n.
SeqsUpTo(S, n) == UNION {[1..k -> S] : k \in 0..n}

(***************************************************************************)
(* LogProcessor._process_single_file                                       *)
(***************************************************************************)
\* f"{level.lower()}_count"
LevelCountKey == [DEBUG |-> "debug_count", INFO |-> "info_count",
                  WARNING |-> "warning_count", ERROR |-> "error_count",
                  CRITICAL |-> "critical_count"]

\* an empty dict
EmptyDict == <<>>

\* d[k] = v
Put(d, k, v) == [x \in (DOMAIN d) \cup {k} |-> IF x = k THEN v ELSE d[x]]

\* AddCount that forgets what the cell held: d[h][k] = n.
AddCountReset(d, h, k, n) ==
    Put(d, h, Put(IF h \in DOMAIN d THEN d[h] ELSE EmptyDict, k, n))

\* defaultdict(lambda: defaultdict(int)): d[h][k] += n
AddCount(d, h, k, n) ==
    LET levels == IF h \in DOMAIN d THEN d[h] ELSE EmptyDict
        count == IF k \in DOMAIN levels THEN levels[k] ELSE 0
    IN  Put(d, h, Put(levels, k, count + n))

\* AddLine with "= 1" in place of "+= 1".
AddLineFirstOnly(data, line) ==
    LET Count(log_data) ==
            IF log_data = None THEN data
            ELSE IF log_data.component = REQUEST /\ "handler" \in DOMAIN log_data
                 THEN Put(data, log_data.handler,
                          Put(IF log_data.handler \in DOMAIN data
                              THEN data[log_data.handler] ELSE EmptyDict,
                              LevelCountKey[log_data.level], 1))
                 ELSE data
    IN  Count(ParseLogLine(line))

\* AddLine that looks for a path in the message of a record of any component.
AddLineAnyComponent(data, line) ==
    LET CountHandler(log_data, handler) ==
            IF handler # <<>> THEN AddCount(data, handler, LevelCountKey[log_data.level], 1)
            ELSE data
        Count(log_data) ==
            IF log_data = None THEN data
            ELSE CountHandler(log_data, RequestSearch(log_data.message))
    IN  Count(BaseMatch(line))

\* The body of the loop over the lines of one file.
AddLine(data, line) ==
    LET Count(log_data) ==
            IF log_data = None THEN data
            ELSE IF log_data.component = REQUEST /\ "handler" \in DOMAIN log_data
                 THEN AddCount(data, log_data.handler, LevelCountKey[log_data.level], 1)
                 ELSE data
    IN  Count(ParseLogLine(line))

RECURSIVE ProcessLines(_)
\* _process_single_file over the lines a source yields
ProcessLines(ls) ==
    IF ls = <<>> THEN EmptyDict
    ELSE AddLine(ProcessLines(SubSeq(ls, 1, Len(ls) - 1)), ls[Len(ls)])

(***************************************************************************)
(* LogProcessor._merge_results                                             *)
(***************************************************************************)
\* levels.get(key, 0)
Get(levels, key) == IF key \in DOMAIN levels THEN levels[key] ELSE 0

\* The (handler, level) cells of one partial result.
Cells(result) ==
    {c \in (DOMAIN result) \X (UNION {DOMAIN result[h] : h \in DOMAIN result}) :
        c[2] \in DOMAIN result[c[1]]}

RECURSIVE AddCells(_, _, _)
AddCells(merged, result, cells) ==
    IF cells = {} THEN merged
    ELSE LET AddCell(c) ==
                 AddCells(AddCount(merged, c[1], c[2], result[c[1]][c[2]]), result, cells \ {c})
         IN  AddCell(CHOOSE x \in cells : TRUE)

\* MergeInto with "=" in place of "+=".
MergeIntoOverwrite(merged, result) ==
    [h \in (DOMAIN merged) \cup {c[1] : c \in Cells(result)} |->
        IF h \in DOMAIN result /\ DOMAIN result[h] # {}
        THEN [k \in (IF h \in DOMAIN merged THEN DOMAIN merged[h] ELSE {}) \cup DOMAIN result[h] |->
                 IF k \in DOMAIN result[h] THEN result[h][k] ELSE merged[h][k]]
        ELSE merged[h]]

\* The loop body: merged_data[handler][level] += count for every cell of result.
MergeInto(merged, result) == AddCells(merged, result, Cells(result))

\* MergedData that stops after the first partial result.
MergedDataFirstOnly(partials) ==
    IF partials = <<>> THEN EmptyDict ELSE MergeInto(EmptyDict, partials[1])

RECURSIVE MergedData(_)
\* merged_data after the loop over partial_results
MergedData(partials) ==
    IF partials = <<>> THEN EmptyDict
    ELSE MergeInto(MergedData(SubSeq(partials, 1, Len(partials) - 1)), partials[Len(partials)])

\* Python's order of str: by code point, a proper prefix first.
StrLess(a, b) ==
    \E i \in 1..Len(b) :
        /\ \A j \in 1..(i - 1) : j <= Len(a) /\ a[j] = b[j]
        /\ \/ i = Len(a) + 1
           \/ i <= Len(a) /\ Ord(a[i]) < Ord(b[i])

RECURSIVE SortedKeys(_)
\* The keys of sorted(d.items()): the keys of a dict are distinct.
SortedKeys(S) ==
    IF S = {} THEN <<>>
    ELSE LET First(m) == <<m>> \o SortedKeys(S \ {m})
         IN  First(CHOOSE x \in S : \A y \in S \ {x} : StrLess(x, y))

\* DjangoReportData.STAT_FIELDS
STAT_FIELDS == <<"debug_count", "info_count", "warning_count", "error_count", "critical_count">>

\* DjangoReportData(handler_name=handler, debug_count=levels.get('debug_count', 0), ...)
DjangoReportData(handler, levels) ==
    [handler_name |-> handler,
     debug_count |-> Get(levels, "debug_count"),
     info_count |-> Get(levels, "info_count"),
     warning_count |-> Get(levels, "warning_count"),
     error_count |-> Get(levels, "error_count"),
     critical_count |-> Get(levels, "critical_count")]

\* The list built from sorted(merged_data.items())
ReportList(merged) ==
    LET Rows(keys) == [i \in 1..Len(keys) |-> DjangoReportData(keys[i], merged[keys[i]])]
    IN  Rows(SortedKeys(DOMAIN merged))

MergeResults(partials) == ReportList(MergedData(partials))

(***************************************************************************)
(* DjangoReportData.create_totals and HandlersReport.generate              *)
(*                                                                         *)
(* The report is the sequence of its text lines.  A table line is the      *)
(* sequence of its columns: f"{value:<width}" pads a value on the right    *)
(* and never cuts it, so a column is kept as its value.                    *)
(***************************************************************************)
RECURSIVE SumField(_, _)
\* sum(getattr(stat, field) for stat in statistics)
SumField(stats, field) ==
    IF stats = <<>> THEN 0
    ELSE SumField(SubSeq(stats, 1, Len(stats) - 1), field) + stats[Len(stats)][field]

CreateTotals(stats) ==
    [handler_name |-> <<>>,
     debug_count |-> SumField(stats, "debug_count"),
     info_count |-> SumField(stats, "info_count"),
     warning_count |-> SumField(stats, "warning_count"),
     error_count |-> SumField(stats, "error_count"),
     critical_count |-> SumField(stats, "critical_count")]

\* sum(getattr(stat, field) for field in STAT_FIELDS)
RowTotal(stat) ==
    stat.debug_count + stat.info_count + stat.warning_count + stat.error_count
    + stat.critical_count

RECURSIVE CalculateTotal(_)
\* HandlersReport._calculate_total
CalculateTotal(stats) ==
    IF stats = <<>> THEN 0
    ELSE CalculateTotal(SubSeq(stats, 1, Len(stats) - 1)) + RowTotal(stats[Len(stats)])

\* Where sorted() puts x among the sorted rows: after the rows that are not
\* greater (sorted is stable).
InsertAt(sorted, x) ==
    LET later == {i \in 1..Len(sorted) : StrLess(x.handler_name, sorted[i].handler_name)}
    IN  IF later = {} THEN Len(sorted) + 1 ELSE SetMin(later)

\* generate without the sort.
SortedHandlersUnsorted(stats) == stats

RECURSIVE SortedHandlers(_)
\* sorted(log_statistics, key=lambda x: x.handler_name)
SortedHandlers(stats) ==
    IF stats = <<>> THEN <<>>
    ELSE LET Insert(front, x, at) ==
                 SubSeq(front, 1, at - 1) \o <<x>> \o SubSeq(front, at, Len(front))
             Place(front, x) == Insert(front, x, InsertAt(front, x))
         IN  Place(SortedHandlers(SubSeq(stats, 1, Len(stats) - 1)), stats[Len(stats)])

\* HandlersReport.no_data_message
NoDataMessage == <<"No data available for report.">>

\* HandlersReport._get_header
Header == <<"HANDLER", "DEBUG", "INFO", "WARNING", "ERROR", "CRITICAL">>

\* HandlersReport._format_statistics
FormatStatistics(title, stat) ==
    <<title, stat.debug_count, stat.info_count, stat.warning_count, stat.error_count,
      stat.critical_count>>

\* HandlersReport.generate: "\n".join(report_lines), as lines; the first
\* element ends in a line break, which leaves an empty line after it.
GenerateReport(stats) ==
    IF stats = <<>> THEN <<NoDataMessage>>
    ELSE LET Lines(sorted_handlers, totals) ==
                 <<<<"Total requests: ", CalculateTotal(stats)>>, <<>>, Header>>
                 \o [i \in 1..Len(sorted_handlers) |->
                        FormatStatistics(sorted_handlers[i].handler_name, sorted_handlers[i])]
                 \o <<FormatStatistics(<<>>, totals)>>
         IN  Lines(SortedHandlers(stats), CreateTotals(stats))

(***************************************************************************)
(* Exceptions (exceptions.py).  The text of an exception is a sequence of  *)
(* fragments, so that a path or a cause can be looked for in it.           *)
(***************************************************************************)
NoException == [type |-> "none"]

\* The classes an exception of each type is an instance of.
Bases ==
    [LogProcessingError |-> {"LogProcessingError", "Exception"},
     LogFileError |-> {"LogFileError", "LogProcessingError", "Exception"},
     MultipleFilesError |-> {"MultipleFilesError", "LogProcessingError", "Exception"},
     FileNotFoundError |-> {"FileNotFoundError", "OSError", "Exception"},
     PermissionError |-> {"PermissionError", "OSError", "Exception"},
     UnicodeDecodeError |-> {"UnicodeDecodeError", "ValueError", "Exception"},
     KeyboardInterrupt |-> {"KeyboardInterrupt"}]

IsInstance(e, class) == class \in Bases[e.type]

\* str(e): the argument of an exception built from one, "" of one built
\* from none
Str(e) == IF e.args = <<>> THEN <<>> ELSE e.args[1]

\* LogProcessingError(text), raised "from cause"
LogProcessingError(text, cause) ==
    [type |-> "LogProcessingError", args |-> <<text>>, cause |-> cause]

\* LogFileError(file_path, message), raised "from cause": __init__ keeps the
\* two arguments as attributes and hands one formatted text to Exception.
LogFileError(file_path, message, cause) ==
    [type |-> "LogFileError", file_path |-> file_path, message |-> message,
     args |-> <<<<"Error processing file ", file_path, ": ">> \o message>>,
     cause |-> cause]

KeyboardInterrupt == [type |-> "KeyboardInterrupt", args |-> <<>>]

\* The positional arguments __init__ requires; 0 where Exception's own
\* __init__ is inherited, which takes any.
InitParams == [LogProcessingError |-> 0, LogFileError |-> 2, MultipleFilesError |-> 1]

\* A worker sends an exception to the parent as (class, args); the parent
\* rebuilds it as class(*args).  That call fails for a class whose __init__
\* requires another number of arguments than were handed to Exception.
CanRebuild(e) == InitParams[e.type] \in {0, Len(e.args)}

\* The exception as the parent rebuilds it: its cause is the remote traceback.
Rebuilt(e) == [e EXCEPT !.cause = [type |-> "RemoteTraceback"]]

(***************************************************************************)
(* LogProcessor._read_logs and _process_single_file on a path              *)
(***************************************************************************)
\* What opening and reading a file does: "none" (it reads), "ENOENT" (no
\* such file), "EACCES" (permission denied) or "decode" (bytes that are not
\* UTF-8).
Faults == {"none", "ENOENT", "EACCES", "decode"}

\* The faults that raise an OSError.
OSErrors == {"ENOENT", "EACCES"}

\* str() of the FileNotFoundError
NoSuchFile(path) ==
    [type |-> "FileNotFoundError",
     args |-> <<<<"[Errno 2] No such file or directory: ", path>>>>]

\* str() of the PermissionError
PermissionDenied(path) ==
    [type |-> "PermissionError", args |-> <<<<"[Errno 13] Permission denied: ", path>>>>]

\* The OSError that open() raises for the fault.
OSErrorOf(fault, path) == IF fault = "ENOENT" THEN NoSuchFile(path) ELSE PermissionDenied(path)

\* str() of the UnicodeDecodeError
CannotDecode == [type |-> "UnicodeDecodeError",
                 args |-> <<<<"'utf-8' codec can't decode byte">>>>]

\* _read_logs with a bare "except:" in place of "except Exception".
ReadLogsRaisesCatchAll(e, path) ==
    IF IsInstance(e, "OSError") THEN LogFileError(path, Str(e), e)
    ELSE LogProcessingError(<<"Unexpected error reading file ", path, ": ">> \o Str(e), e)

\* The except clauses of _read_logs: an OSError becomes a LogFileError, any
\* other Exception a LogProcessingError, anything else passes.
ReadLogsRaises(e, path) ==
    IF IsInstance(e, "OSError") THEN LogFileError(path, Str(e), e)
    ELSE IF IsInstance(e, "Exception")
    THEN LogProcessingError(<<"Unexpected error reading file ", path, ": ">> \o Str(e), e)
    ELSE e

\* _read_logs run to its end: the lines, or the exception it raises.
ReadLogs(files, path) ==
    IF files[path].fault = "none" THEN [ok |-> TRUE, lines |-> files[path].lines]
    ELSE [ok |-> FALSE,
          exc |-> ReadLogsRaises(IF files[path].fault \in OSErrors
                                 THEN OSErrorOf(files[path].fault, path)
                                 ELSE CannotDecode, path)]

\* _process_single_file(path) without the error path: an unreadable source
\* counts as an empty one.
ProcessSingleFileSkipUnreadable(files, path) ==
    [ok |-> TRUE,
     value |-> IF ReadLogs(files, path).ok THEN ProcessLines(ReadLogs(files, path).lines)
               ELSE EmptyDict]

\* _process_single_file(path): the partial aggregate, or the exception.
ProcessSingleFile(files, path) ==
    LET read == ReadLogs(files, path)
    IN  IF read.ok THEN [ok |-> TRUE, value |-> ProcessLines(read.lines)]
        ELSE [ok |-> FALSE, exc |-> read.exc]

\* process_files without its except clauses.
ProcessFilesRaisesUnwrapped(e) == e

\* The except clauses of process_files: a LogFileError passes, any other
\* Exception is wrapped, anything else (KeyboardInterrupt) passes.
ProcessFilesRaises(e) ==
    IF IsInstance(e, "LogFileError") THEN e
    ELSE IF IsInstance(e, "Exception")
    THEN LogProcessingError(<<"Error processing log files: ">> \o Str(e), e)
    ELSE e

(***************************************************************************)
(* Specification SpecLines: _process_single_file reads one source line by  *)
(* line.                                                                   *)
(***************************************************************************)
LinesIdle == lines = <<>> /\ line_no = 0 /\ handlers_data = EmptyDict
MergeIdle == partial_results = <<>> /\ merge_no = 0 /\ merged_data = EmptyDict /\ merge_out = <<>>
ParseIdle == line_in = <<>> /\ data_out = None /\ parsed = FALSE
ReportIdle == log_statistics = <<>> /\ report = <<>> /\ generated = FALSE
PoolIdle ==
    /\ task_next = 1 /\ running = {} /\ arrived = <<>> /\ handler_alive = TRUE
    /\ number_left = 0 /\ map_success = TRUE /\ map_value = <<>>
NothingDone ==
    /\ results = <<>> /\ returned = <<>> /\ raised = NoException
    /\ stdout = <<>> /\ stderr = <<>> /\ exit_code = -1
SysIdle ==
    /\ fs = <<>> /\ file_paths = <<>> /\ use_multiprocessing = FALSE /\ num_workers = 1
    /\ pc = "idle" /\ PoolIdle /\ NothingDone

InitLines ==
    /\ lines \in SeqsUpTo(LineSet, MaxLen)
    /\ line_no = 1
    /\ handlers_data = EmptyDict
    /\ MergeIdle /\ ReportIdle /\ SysIdle /\ ParseIdle

\* One turn of "for line in self._read_logs(file_path)".
ReadLine ==
    /\ line_no >= 1 /\ line_no <= Len(lines)
    /\ handlers_data' = AddLine(handlers_data, lines[line_no])
    /\ line_no' = line_no + 1
    /\ UNCHANGED <<lines, parseVars, mergeVars, reportVars, sysVars>>

NextLines == ReadLine

SpecLines == InitLines /\ [][NextLines]_vars

(***************************************************************************)
(* Specification SpecMerge: _merge_results folds a list of partial         *)
(* aggregates and builds the sorted list.                                  *)
(***************************************************************************)
\* Partial aggregates of the shape _process_single_file returns.
PartialSamples ==
    {EmptyDict,
     USERS :> [info_count |-> 1],
     USERS :> [info_count |-> 2, error_count |-> 1],
     ADMIN :> [debug_count |-> 1],
     (USERS :> [error_count |-> 1]) @@ (ADMIN :> [info_count |-> 1, critical_count |-> 3])}

InitMerge ==
    /\ partial_results \in SeqsUpTo(PartialSamples, MaxPartials)
    /\ merge_no = 1
    /\ merged_data = EmptyDict
    /\ merge_out = <<>>
    /\ LinesIdle /\ ReportIdle /\ SysIdle /\ ParseIdle

\* One turn of "for result in partial_results".
MergeOne ==
    /\ merge_no >= 1 /\ merge_no <= Len(partial_results)
    /\ merged_data' = MergeInto(merged_data, partial_results[merge_no])
    /\ merge_no' = merge_no + 1
    /\ UNCHANGED <<partial_results, merge_out, lineVars, parseVars, reportVars, sysVars>>

\* The return statement: the list sorted by handler.
MergeReturn ==
    /\ merge_no = Len(partial_results) + 1
    /\ merge_out' = ReportList(merged_data)
    /\ merge_no' = merge_no + 1
    /\ UNCHANGED <<partial_results, merged_data, lineVars, parseVars, reportVars, sysVars>>

MergeReturned == merge_no = Len(partial_results) + 2

NextMerge == MergeOne \/ MergeReturn

SpecMerge == InitMerge /\ [][NextMerge]_vars

(***************************************************************************)
(* Specification SpecReport: HandlersReport.generate on a statistics list. *)
(***************************************************************************)
API == <<"/", "a", "p", "i", "/">>
UPPER == <<"/", "Z">>

\* Statistics rows, in no particular order.
RowSamples ==
    {DjangoReportData(USERS, [info_count |-> 1, error_count |-> 1]),
     DjangoReportData(ADMIN, [debug_count |-> 2]),
     DjangoReportData(API, [warning_count |-> 1, critical_count |-> 1]),
     DjangoReportData(UPPER, [info_count |-> 3]),
     DjangoReportData(USERS, [debug_count |-> 1])}

InitReport ==
    /\ log_statistics \in SeqsUpTo(RowSamples, MaxRows)
    /\ report = <<>>
    /\ generated = FALSE
    /\ LinesIdle /\ MergeIdle /\ SysIdle /\ ParseIdle

Generate ==
    /\ ~generated
    /\ report' = GenerateReport(log_statistics)
    /\ generated' = TRUE
    /\ UNCHANGED <<log_statistics, lineVars, parseVars, mergeVars, sysVars>>

NextReport == Generate

SpecReport == InitReport /\ [][NextReport]_vars

(***************************************************************************)
(* Specification SpecParse: parse_log_line on one well-formed record.      *)
(***************************************************************************)
GET == <<"G", "E", "T">>
PUT == <<"P", "U", "T">>
PATCH == <<"P", "A", "T", "C", "H">>
SP == <<" ">>
TAB == <<"\t">>
ROOT == <<"/">>
HTTP == <<"H", "T", "T", "P", "/", "1", ".", "1">>

\* Messages of records: with a method or "Error:" and a path, with both in
\* either order, with a tab or two spaces between them, with the root path,
\* and without a match (no whitespace, a lower-case method, no path).
MessageSamples ==
    {MSG_GET_USERS, MSG_ERR_USERS, MSG_POST_ADMIN, MSG_DELETE_USERS, MSG_NO_PATH,
     ErrorToken \o SP \o ADMIN \o SP \o MSG_GET_USERS,
     MSG_GET_USERS \o SP \o ErrorToken \o SP \o ADMIN,
     PUT \o TAB \o ADMIN,
     PATCH \o SP \o SP \o ADMIN \o SP \o HTTP,
     GET \o ADMIN,
     <<"g", "e", "t">> \o SP \o ADMIN,
     GET \o SP \o ROOT \o SP \o HTTP,
     GET \o SP \o ROOT}

\* The lines handed to parse_log_line.
RecordSamples ==
    {LogLine(ts, LevelToken[LEVELS[k]], component, message) :
        ts \in {TS1, TS2}, k \in 1..Len(LEVELS), component \in {REQUEST, DB},
        message \in MessageSamples}

InitParse ==
    /\ line_in \in RecordSamples
    /\ data_out = None
    /\ parsed = FALSE
    /\ LinesIdle /\ MergeIdle /\ ReportIdle /\ SysIdle

\* log_data = self.parser.parse_log_line(line)
ParseLine ==
    /\ ~parsed
    /\ data_out' = ParseLogLine(line_in)
    /\ parsed' = TRUE
    /\ UNCHANGED <<line_in, lineVars, mergeVars, reportVars, sysVars>>

NextParse == ParseLine

SpecParse == InitParse /\ [][NextParse]_vars

(***************************************************************************)
(* Specification Spec: main runs process_files over the files named on the *)
(* command line, then prints the report or the error.                      *)
(*                                                                         *)
(* main builds LogProcessor(), which uses the pool; the processor of the   *)
(* tests is LogProcessor(use_multiprocessing=False).  Both are run here.   *)
(* pool.map cuts the list into chunks of ceil(n / (4 * num_workers))       *)
(* tasks: under the bounds here every chunk is one task.  The workers are  *)
(* alike, so the pool is the set of tasks being worked on.                 *)
(***************************************************************************)
PathNames == <<"a.log", "b.log", "c.log">>
Paths == {PathNames[i] : i \in 1..MaxFiles}

Range(q) == {q[i] : i \in 1..Len(q)}

\* The two lines of the same handler, one INFO and one ERROR.
FILE_USERS == <<REQ_INFO_USERS, REQ_ERROR_USERS>>
\* No record of a request.
FILE_NOISE == <<FREE_TEXT \o NL, LogLine(TS1, LevelToken.DEBUG, DB, MSG_GET_USERS)>>
FILE_MIXED == <<REQ_DEBUG_ADMIN, REQ_INFO_USERS, REQ_CRITICAL_USERS_EOF>>

SampleFiles == {FILE_USERS, <<>>, FILE_NOISE, FILE_MIXED}

FileStates ==
    {[fault |-> "none", lines |-> c] : c \in SampleFiles}
    \cup {[fault |-> f, lines |-> <<>>] : f \in Faults \ {"none"}}

\* A path that is not on the command line names no file.
Absent == [fault |-> "ENOENT", lines |-> <<>>]

\* nargs="+": one or more paths
PathLists ==
    {q \in SeqsUpTo(Paths, MaxFiles) :
        q # <<>> /\ \A i, j \in 1..Len(q) : i # j => q[i] # q[j]}

Init ==
    /\ file_paths \in PathLists
    /\ fs \in {f \in [Paths -> FileStates] :
                  \A p \in Paths : p \notin Range(file_paths) => f[p] = Absent}
    /\ use_multiprocessing \in BOOLEAN
    /\ num_workers \in 1..MaxWorkers
    /\ (~use_multiprocessing => num_workers = 1)
    /\ pc = "start"
    /\ PoolIdle /\ NothingDone
    /\ LinesIdle /\ MergeIdle /\ ReportIdle /\ ParseIdle

\* main calls processor.process_files(args.log_files).
CallProcessFiles ==
    /\ pc = "start"
    /\ pc' = IF use_multiprocessing THEN "pool" ELSE "seq"
    /\ number_left' = IF use_multiprocessing THEN Len(file_paths) ELSE 0
    /\ map_value' = IF use_multiprocessing THEN [i \in 1..Len(file_paths) |-> None] ELSE <<>>
    /\ UNCHANGED <<fs, file_paths, use_multiprocessing, num_workers, task_next, running,
                   arrived, handler_alive, map_success, results, returned, raised,
                   stdout, stderr, exit_code, lineVars, parseVars, mergeVars, reportVars>>

\* A free worker takes the next task of the queue.
TakeTask ==
    /\ pc = "pool"
    /\ Cardinality(running) < num_workers
    /\ task_next <= Len(file_paths)
    /\ running' = running \cup {task_next}
    /\ task_next' = task_next + 1
    /\ UNCHANGED <<fs, file_paths, use_multiprocessing, num_workers, pc, arrived,
                   handler_alive, number_left, map_success, map_value, results, returned,
                   raised, stdout, stderr, exit_code, lineVars, parseVars, mergeVars, reportVars>>

\* A worker ends task i and sends its result or its exception; the result
\* handler thread reads it.  A message it cannot rebuild ends the thread,
\* and nothing reads the messages that follow.  Else MapResult._set stores
\* the result at its index, or the first exception.
FinishTask(i) ==
    /\ pc = "pool"
    /\ i \in running
    /\ running' = running \ {i}
    /\ \E out \in {ProcessSingleFile(fs, file_paths[i])} :
           IF ~handler_alive
           THEN UNCHANGED <<arrived, handler_alive, number_left, map_success, map_value>>
           ELSE IF ~out.ok /\ ~CanRebuild(out.exc)
           THEN /\ handler_alive' = FALSE
                /\ UNCHANGED <<arrived, number_left, map_success, map_value>>
           ELSE /\ arrived' = Append(arrived, i)
                /\ number_left' = number_left - 1
                /\ map_success' = (map_success /\ out.ok)
                /\ map_value' = IF ~map_success THEN map_value
                                ELSE IF out.ok THEN [map_value EXCEPT ![i] = out.value]
                                ELSE Rebuilt(out.exc)
                /\ UNCHANGED handler_alive
    /\ UNCHANGED <<fs, file_paths, use_multiprocessing, num_workers, pc, task_next, results,
                   returned, raised, stdout, stderr, exit_code, lineVars, parseVars, mergeVars,
                   reportVars>>

\* PoolMapEnds that does not wait for the last result.
PoolMapEndsEarly ==
    /\ pc = "pool"
    /\ handler_alive
    /\ number_left < Len(file_paths)
    /\ pc' = IF map_success THEN "merge" ELSE "raised"
    /\ results' = IF map_success THEN map_value ELSE results
    /\ raised' = IF map_success THEN raised ELSE ProcessFilesRaises(map_value)
    /\ UNCHANGED <<fs, file_paths, use_multiprocessing, num_workers, poolVars, returned,
                   stdout, stderr, exit_code, lineVars, parseVars, mergeVars, reportVars>>

\* pool.map returns once every result has been stored: the list, in the
\* order of file_paths, or it raises the first exception that arrived.
PoolMapEnds ==
    /\ pc = "pool"
    /\ handler_alive
    /\ number_left = 0
    /\ pc' = IF map_success THEN "merge" ELSE "raised"
    /\ results' = IF map_success THEN map_value ELSE results
    /\ raised' = IF map_success THEN raised ELSE ProcessFilesRaises(map_value)
    /\ UNCHANGED <<fs, file_paths, use_multiprocessing, num_workers, poolVars, returned,
                   stdout, stderr, exit_code, lineVars, parseVars, mergeVars, reportVars>>

\* One element of [self._process_single_file(path) for path in file_paths].
ProcessNextFile ==
    /\ pc = "seq"
    /\ \E out \in {ProcessSingleFile(fs, file_paths[Len(results) + 1])} :
           IF out.ok
           THEN /\ results' = Append(results, out.value)
                /\ pc' = IF Len(results) + 1 = Len(file_paths) THEN "merge" ELSE "seq"
                /\ UNCHANGED raised
           ELSE /\ raised' = ProcessFilesRaises(out.exc)
                /\ pc' = "raised"
                /\ UNCHANGED results
    /\ UNCHANGED <<fs, file_paths, use_multiprocessing, num_workers, poolVars, returned,
                   stdout, stderr, exit_code, lineVars, parseVars, mergeVars, reportVars>>

\* return self._merge_results(results)
ReturnMerged ==
    /\ pc = "merge"
    /\ returned' = MergeResults(results)
    /\ pc' = "returned"
    /\ UNCHANGED <<fs, file_paths, use_multiprocessing, num_workers, poolVars, results,
                   raised, stdout, stderr, exit_code, lineVars, parseVars, mergeVars, reportVars>>

\* Where the parent process is when the interrupt is raised: inside
\* _read_logs (sequential mode only: in pool mode the workers read), or
\* anywhere else in process_files.
InterruptPoints == IF pc = "seq" THEN {"reading", "elsewhere"} ELSE {"elsewhere"}

\* The user interrupts the process while process_files runs: neither
\* "except Exception" catches a KeyboardInterrupt, and leaving the "with"
\* block of the pool terminates the workers.
Interrupt ==
    /\ pc \in {"pool", "seq", "merge"}
    /\ \E at \in InterruptPoints :
          raised' = ProcessFilesRaises(
                        IF at = "reading"
                        THEN ReadLogsRaises(KeyboardInterrupt, file_paths[Len(results) + 1])
                        ELSE KeyboardInterrupt)
    /\ pc' = "raised"
    /\ running' = {}
    /\ UNCHANGED <<fs, file_paths, use_multiprocessing, num_workers, task_next, arrived,
                   handler_alive, number_left, map_success, map_value, results, returned,
                   stdout, stderr, exit_code, lineVars, parseVars, mergeVars, reportVars>>

\* main after process_files returned: no data, or the report.
MainReports ==
    /\ pc = "returned"
    /\ pc' = "exited"
    /\ IF returned = <<>>
       THEN /\ stderr' = Append(stderr, <<"No logs found in the provided files">>)
            /\ exit_code' = 1
            /\ UNCHANGED stdout
       ELSE /\ stdout' = Append(stdout, GenerateReport(returned))
            /\ exit_code' = 0
            /\ UNCHANGED stderr
    /\ UNCHANGED <<fs, file_paths, use_multiprocessing, num_workers, poolVars, results,
                   returned, raised, lineVars, parseVars, mergeVars, reportVars>>

\* What the except clauses of main print for an exception.
MainPrints(e) ==
    IF IsInstance(e, "MultipleFilesError")
    THEN <<<<"Errors occurred while processing files:">>>>
         \o [i \in 1..Len(e.failed_files) |->
                <<"  ", e.failed_files[i][1], ": ", e.failed_files[i][2]>>]
    ELSE IF IsInstance(e, "LogFileError") THEN <<<<"File error: ">> \o Str(e)>>
    ELSE IF IsInstance(e, "LogProcessingError") THEN <<<<"Processing error: ">> \o Str(e)>>
    ELSE IF IsInstance(e, "KeyboardInterrupt") THEN <<<<"\nOperation cancelled by user">>>>
    ELSE <<<<"Unexpected error: ">> \o Str(e)>>

\* The code main returns from its except clauses.
MainCode(e) == IF IsInstance(e, "KeyboardInterrupt") THEN 130 ELSE 1

\* main after process_files raised.
MainCatches ==
    /\ pc = "raised"
    /\ pc' = "exited"
    /\ stderr' = stderr \o MainPrints(raised)
    /\ exit_code' = MainCode(raised)
    /\ UNCHANGED <<fs, file_paths, use_multiprocessing, num_workers, poolVars, results,
                   returned, raised, stdout, lineVars, parseVars, mergeVars, reportVars>>

Next ==
    \/ CallProcessFiles
    \/ TakeTask
    \/ \E i \in 1..Len(file_paths) : FinishTask(i)
    \/ PoolMapEnds
    \/ ProcessNextFile
    \/ ReturnMerged
    \/ Interrupt
    \/ MainReports
    \/ MainCatches

Spec == Init /\ [][Next]_vars

(***************************************************************************)
(* Claims on the merge (SpecMerge).                                        *)
(***************************************************************************)
\* The reorderings of a list of n elements.
Perms(n) == {f \in [1..n -> 1..n] : \A i, j \in 1..n : i # j => f[i] # f[j]}
Permute(s, f) == [i \in 1..Len(s) |-> s[f[i]]]

RECURSIVE CellSum(_, _, _)
\* The sum of one cell over the partials; a partial without the handler or
\* the level adds zero.
CellSum(partials, h, k) ==
    IF partials = <<>> THEN 0
    ELSE LET last == partials[Len(partials)]
         IN  CellSum(SubSeq(partials, 1, Len(partials) - 1), h, k)
             + (IF h \in DOMAIN last THEN Get(last[h], k) ELSE 0)

HandlersOf(partials) == UNION {DOMAIN partials[i] : i \in 1..Len(partials)}

\* C1: _merge_results is commutative and associative.  Once it has returned:
\* every reordering of the partials gives the same list (same handlers, same
\* five counts); merging any two-level or three-way grouping of the partials
\* gives the same cells as merging them all at once; each cell is the sum of
\* that cell over the partials, a missing key counting zero; and an empty
\* list gives an empty result.
C1_MergeAssociativeCommutative ==
    MergeReturned =>
        LET n == Len(partial_results)
            Part(a, b) == MergedData(SubSeq(partial_results, a, b))
        IN  /\ \A f \in Perms(n) : MergeResults(Permute(partial_results, f)) = merge_out
            /\ \A i \in 0..n : \A j \in i..n :
                /\ MergedData(<<MergedData(<<Part(1, i), Part(i + 1, j)>>), Part(j + 1, n)>>)
                       = merged_data
                /\ MergedData(<<Part(1, i), MergedData(<<Part(i + 1, j), Part(j + 1, n)>>)>>)
                       = merged_data
            /\ {merge_out[r].handler_name : r \in 1..Len(merge_out)} = HandlersOf(partial_results)
            /\ Len(merge_out) = Cardinality(HandlersOf(partial_results))
            /\ \A r \in 1..Len(merge_out) : \A k \in 1..Len(STAT_FIELDS) :
                merge_out[r][STAT_FIELDS[k]]
                    = CellSum(partial_results, merge_out[r].handler_name, STAT_FIELDS[k])
            /\ (n = 0 => merge_out = <<>>)

\* Three different partials were merged: two of them define the same handler
\* and the third does not.
C1_Witness ==
    /\ MergeReturned
    /\ Len(partial_results) = 3
    /\ Cardinality({partial_results[i] : i \in 1..3}) = 3
    /\ USERS \in DOMAIN partial_results[1]
    /\ USERS \notin DOMAIN partial_results[2]
    /\ USERS \in DOMAIN partial_results[3]
    /\ Len(merge_out) = 2

(***************************************************************************)
(* Claims on the aggregation of one source (SpecLines).                    *)
(***************************************************************************)
AllRead == line_no = Len(lines) + 1

\* C2: once a source is read to its end, for every split point the merge of
\* the aggregates of the prefix and of the suffix is the aggregate of the
\* whole source, as a dict and as the list _merge_results builds from it.
C2_SplitThenMergeEqualsWhole ==
    AllRead =>
        \A k \in 0..Len(lines) :
            LET prefix == ProcessLines(SubSeq(lines, 1, k))
                suffix == ProcessLines(SubSeq(lines, k + 1, Len(lines)))
            IN  /\ MergedData(<<prefix, suffix>>) = handlers_data
                /\ MergeResults(<<prefix, suffix>>) = MergeResults(<<handlers_data>>)

\* A source was read whose two halves count the same cell.
C2_Witness ==
    /\ AllRead
    /\ Len(lines) = 3
    /\ lines[1] = REQ_INFO_USERS /\ lines[3] = REQ_INFO_USERS
    /\ handlers_data[USERS]["info_count"] = 2

\* The lines that are not request records with a handler path.
IgnoredLines == UnmatchedLines \cup NonRequestLines \cup NoPathLines

\* C10: a line that does not match the record format, a record of another
\* component (whatever its message holds) and a request record without a
\* path leave the aggregate as it is; and a line that changes the aggregate
\* parses as a django.request record with a handler.
C10_OnlyRequestRecordsWithAPathCount ==
    [][(line_no >= 1 /\ line_no <= Len(lines)) =>
          /\ lines[line_no] \in IgnoredLines => handlers_data' = handlers_data
          /\ handlers_data' # handlers_data =>
                LET d == ParseLogLine(lines[line_no])
                IN  d # None /\ d.component = REQUEST /\ "handler" \in DOMAIN d]_lineVars

\* A record of another component with a path in its message was read after
\* a counted line, then a request record without a path.
C10_Witness ==
    /\ AllRead
    /\ Len(lines) = 3
    /\ lines[1] \in RequestLines
    /\ lines[2] \in NonRequestLines
    /\ lines[3] \in NoPathLines
    /\ handlers_data = ProcessLines(<<lines[1]>>)

(***************************************************************************)
(* Claims on the report (SpecReport).                                      *)
(***************************************************************************)
\* How often row x occurs in the sequence s.
Occurrences(s, x) == Cardinality({i \in 1..Len(s) : s[i] = x})

\* C5: for a statistics list that is not empty, in any order, the report
\* holds one row per entry in ascending order of the handler key, then one
\* totals row, which is last and has an empty identifier and the column sums
\* of the handler rows; the "Total requests" number is the sum of the five
\* cells of the totals row.
C5_RowsSortedTotalsLast ==
    (generated /\ log_statistics # <<>>) =>
        LET n == Len(log_statistics)
            row(i) == report[3 + i]
            totals == report[Len(report)]
            column(c) == [i \in 1..n |-> [cell |-> row(i)[c]]]
        IN  /\ Len(report) = n + 4
            /\ report[1][1] = "Total requests: "
            /\ \A i \in 1..n : row(i)[1] # <<>>
            /\ \A i \in 1..n : \A j \in (i + 1)..n : ~StrLess(row(j)[1], row(i)[1])
            /\ \A i \in 1..n :
                Occurrences([j \in 1..n |-> row(j)], row(i))
                    = Occurrences([j \in 1..n |->
                          FormatStatistics(log_statistics[j].handler_name, log_statistics[j])],
                          row(i))
            /\ totals[1] = <<>>
            /\ \A c \in 2..6 : totals[c] = SumField(column(c), "cell")
            /\ report[1][2] = totals[2] + totals[3] + totals[4] + totals[5] + totals[6]

\* A report was made from three rows given in descending order, two of them
\* for the same handler.
C5_Witness ==
    /\ generated
    /\ Len(log_statistics) = 3
    /\ log_statistics[1].handler_name = USERS
    /\ log_statistics[2].handler_name = USERS
    /\ log_statistics[1] # log_statistics[2]
    /\ log_statistics[3].handler_name = UPPER
    /\ report[4][1] = UPPER

(***************************************************************************)
(* Claims on a run of main (Spec).                                         *)
(***************************************************************************)
\* The sources of the run that cannot be opened or read.
FailingSources == {p \in Range(file_paths) : fs[p].fault # "none"}

AllReadable == FailingSources = {}

\* pool.map waits for results that nothing reads any more.
Hung == pc = "pool" /\ ~handler_alive

\* What _process_single_file gives for each content a file can have.
AggregateOf == [c \in SampleFiles |-> ProcessLines(c)]

\* The partial aggregates of the sources q, in the order of q.
PartialsOf(q) == [i \in 1..Len(q) |-> AggregateOf[fs[q[i]].lines]]

\* C3: over readable sources, process_files returns, unless the user
\* interrupts it, and what it returns is what the sources give in every
\* order of submission.  The runs differ in the order of the paths, in the
\* mode, in the number of workers and in the order the workers finish, and
\* the value required of them depends on none of these.
C3_ResultIndependentOfOrderAndMode ==
    AllReadable =>
        /\ ~Hung
        /\ pc = "raised" => raised = KeyboardInterrupt
        /\ pc = "returned" =>
              \A f \in Perms(Len(file_paths)) :
                  returned = MergeResults(PartialsOf(Permute(file_paths, f)))

\* Two workers took two sources that count the same handler, the second
\* source was finished first, and process_files returned.
C3_Witness ==
    /\ pc = "returned"
    /\ use_multiprocessing /\ num_workers = 2
    /\ arrived = <<2, 1>>
    /\ fs[file_paths[1]].lines = FILE_USERS
    /\ fs[file_paths[2]].lines = FILE_MIXED
    /\ Len(returned) = 2

\* The lines, over all sources, that parse as a request record of the
\* severity with the handler.
SourceLines == UNION {{<<p, i>> : i \in 1..Len(fs[p].lines)} : p \in Range(file_paths)}

\* What parse_log_line gives for each line a file can hold.
ParsedLines == [l \in LineSet |-> ParseLogLine(l)]

ParsedAt(x) == ParsedLines[fs[x[1]].lines[x[2]]]

RequestRecords ==
    {x \in SourceLines :
        /\ ParsedAt(x) # None
        /\ ParsedAt(x).component = REQUEST
        /\ "handler" \in DOMAIN ParsedAt(x)}

CountedLines(h, severity) ==
    {x \in RequestRecords : ParsedAt(x).handler = h /\ ParsedAt(x).level = severity}

\* The handlers some line of some source is counted for.
CountedHandlers == {ParsedAt(x).handler : x \in RequestRecords}

\* C4: what process_files returns over readable sources holds, for every
\* handler and severity, the number of lines of all sources that parse as a
\* request record of that severity with that handler; a handler has a row if
\* and only if there is such a line, and one row only.  The two lines
\* "INFO ... GET /api/users/" and "ERROR ... Error: /api/users/" give the
\* one row /api/users/ with info 1, error 1 and 0 elsewhere.
C4_CountsAreLinesPerHandlerAndSeverity ==
    pc = "returned" =>
        /\ \A r \in 1..Len(returned) : \A k \in 1..Len(LEVELS) :
              returned[r][LevelCountKey[LEVELS[k]]]
                  = Cardinality(CountedLines(returned[r].handler_name, LEVELS[k]))
        /\ {returned[r].handler_name : r \in 1..Len(returned)} = CountedHandlers
        /\ Len(returned) = Cardinality(CountedHandlers)
        /\ (/\ \E p \in Range(file_paths) : fs[p].lines = FILE_USERS
            /\ \A p \in Range(file_paths) : fs[p].lines \in {FILE_USERS, <<>>, FILE_NOISE}
            /\ Cardinality({p \in Range(file_paths) : fs[p].lines = FILE_USERS}) = 1)
           => returned = <<[handler_name |-> USERS, debug_count |-> 0, info_count |-> 1,
                            warning_count |-> 0, error_count |-> 1, critical_count |-> 0]>>

\* Two sources that count the same cell were processed: /api/users/ has one
\* INFO line in each.
C4_Witness ==
    /\ pc = "returned"
    /\ Len(file_paths) = 2
    /\ fs[file_paths[1]].lines = FILE_USERS
    /\ fs[file_paths[2]].lines = FILE_MIXED
    /\ \E r \in 1..Len(returned) :
          returned[r].handler_name = USERS /\ returned[r].info_count = 2

\* main left through an except clause for an error, not for an interrupt.
ExitedOnError == pc = "exited" /\ raised # NoException /\ raised # KeyboardInterrupt

\* C9: in a run with a source that cannot be opened or read, nothing is ever
\* written to stdout, whatever the other sources hold and however far the
\* run got.
C9_NoReportWhenASourceFails == (~AllReadable) => stdout = <<>>

\* The first source was aggregated and counts a handler, the second could not
\* be read, and main has left with code 1.
C9_Witness ==
    /\ ExitedOnError
    /\ exit_code = 1
    /\ Len(file_paths) = 2
    /\ fs[file_paths[1]] = [fault |-> "none", lines |-> FILE_USERS]
    /\ fs[file_paths[2]].fault # "none"
    /\ results = <<ProcessLines(FILE_USERS)>>
    /\ stdout = <<>>

\* The text names the path and holds the cause of the failed open.
NamesMissing(text, path) ==
    /\ path \in Range(text)
    /\ "[Errno 2] No such file or directory: " \in Range(text)

\* Two sources, one of which does not exist while the other reads.
TwoSourcesOneMissing ==
    /\ Len(file_paths) = 2
    /\ Cardinality(FailingSources) = 1
    /\ \A p \in FailingSources : fs[p].fault = "ENOENT"

\* C6: given two sources one of which does not exist, in pool mode as in
\* sequential mode, process_files does not return a result and is not left
\* waiting; the error it raises is a LogFileError whose text names the
\* missing source and the cause; main prints that text and returns 1.
C6_MissingSourceFailsWithPathAndCause ==
    TwoSourcesOneMissing =>
        /\ ~Hung
        /\ pc # "returned"
        /\ (pc = "raised" /\ raised # KeyboardInterrupt) =>
              /\ IsInstance(raised, "LogFileError")
              /\ \A p \in FailingSources : NamesMissing(Str(raised), p)
        /\ ExitedOnError =>
              /\ exit_code = 1
              /\ Len(stderr) = 1
              /\ \A p \in FailingSources : NamesMissing(stderr[1], p)

\* C7: when more than one source fails and main leaves on the error, stderr
\* names every failing source.
C7_EveryFailingSourceIsReported ==
    (ExitedOnError /\ Cardinality(FailingSources) > 1) =>
        \A p \in FailingSources : \E i \in 1..Len(stderr) : p \in Range(stderr[i])

\* C8: main returns 0 exactly when process_files returned a list that is
\* not empty, with the report on stdout and nothing on stderr; 1 when it
\* returned an empty list, with "No logs found" on stderr, and when it
\* raised a file or processing error; 130 when the user interrupted; and no
\* other code.  A run in which an error arose is not left waiting.
C8_ExitCodes ==
    /\ ~Hung
    /\ pc = "exited" =>
          /\ exit_code \in {0, 1, 130}
          /\ exit_code = 0 <=> (raised = NoException /\ returned # <<>>)
          /\ exit_code = 0 => (stdout = <<GenerateReport(returned)>> /\ stderr = <<>>)
          /\ (raised = NoException /\ returned = <<>>) =>
                (exit_code = 1 /\ stderr = <<<<"No logs found in the provided files">>>>)
          /\ (raised # NoException /\ IsInstance(raised, "Exception")) => exit_code = 1
          /\ exit_code = 130 <=> raised = KeyboardInterrupt

\* What makes the source unreadable: the exception open() or the read raises.
CauseOf(p) == IF fs[p].fault \in OSErrors THEN OSErrorOf(fs[p].fault, p) ELSE CannotDecode

\* C11: whatever makes a source unreadable (no such file, permission
\* denied, bytes that are not UTF-8), process_files is not left waiting, and
\* the error it raises is a LogFileError whose file_path is a source that
\* failed and whose message is the text of what made it fail.
C11_EveryAccessFailureIsALogFileError ==
    (~AllReadable) =>
        /\ ~Hung
        /\ (pc = "raised" /\ raised # KeyboardInterrupt) =>
              /\ IsInstance(raised, "LogFileError")
              /\ raised.file_path \in FailingSources
              /\ raised.message = Str(CauseOf(raised.file_path))

MergeStarted == pc \in {"merge", "returned"} \/ returned # <<>>

\* C13: when _merge_results is called, _process_single_file has finished for
\* every submitted source: results holds the aggregate of each, in order, no
\* worker holds a task and no task is left in the queue; and in a run with a
\* source that fails _merge_results is never called.
C13_MergeAfterAllSourcesAreDone ==
    /\ MergeStarted =>
          /\ Len(results) = Len(file_paths)
          /\ \A i \in 1..Len(file_paths) : results[i] = AggregateOf[fs[file_paths[i]].lines]
          /\ running = {}
          /\ use_multiprocessing =>
                (task_next = Len(file_paths) + 1 /\ number_left = 0
                 /\ Len(arrived) = Len(file_paths))
    /\ (~AllReadable) => ~MergeStarted

\* Two workers have finished two sources, the second one first, and
\* _merge_results is about to run.
C13_Witness ==
    /\ pc = "merge"
    /\ use_multiprocessing /\ num_workers = 2
    /\ arrived = <<2, 1>>
    /\ results = <<AggregateOf[FILE_MIXED], AggregateOf[FILE_USERS]>>

\* process_files has raised an Exception (not an interrupt).
RaisedException == pc \in {"raised", "exited"} /\ raised \notin {NoException, KeyboardInterrupt}

\* C14: an Exception that leaves process_files is either the LogFileError
\* that _read_logs raised for a source, unchanged, or a LogProcessingError
\* (of that very class, never MultipleFilesError) whose text is "Error
\* processing log files: " followed by the text of its cause, the cause being
\* the exception, other than a LogFileError, that reached process_files: the
\* one a source raised, same class and arguments.  The except clauses do the
\* same to an exception of any other class that would reach them.
C14_OtherExceptionsAreWrapped ==
    /\ RaisedException =>
          \/ /\ raised.type = "LogFileError"
             /\ \E p \in FailingSources : raised = ReadLogs(fs, p).exc
          \/ /\ raised.type = "LogProcessingError"
             /\ Str(raised) = <<"Error processing log files: ">> \o Str(raised.cause)
             /\ ~IsInstance(raised.cause, "LogFileError")
             /\ \E p \in FailingSources :
                   /\ raised.cause.type = ReadLogs(fs, p).exc.type
                   /\ raised.cause.args = ReadLogs(fs, p).exc.args
    /\ \A p \in Range(file_paths) : \A e \in {NoSuchFile(p), PermissionDenied(p), CannotDecode} :
          /\ ProcessFilesRaises(e).type = "LogProcessingError"
          /\ Str(ProcessFilesRaises(e)) = <<"Error processing log files: ">> \o Str(e)
          /\ ProcessFilesRaises(e).cause = e

\* In pool mode a source could not be decoded: what process_files raised
\* wraps the worker's exception as the parent rebuilt it.
C14_Witness ==
    /\ pc = "raised"
    /\ use_multiprocessing
    /\ raised.type = "LogProcessingError"
    /\ raised.cause.type = "LogProcessingError"
    /\ raised.cause.cause.type = "RemoteTraceback"

(***************************************************************************)
(* Claims on the parser (SpecParse).                                       *)
(***************************************************************************)
\* The keyword, a method or "Error:", that stands at position i of m.
KeywordsAt(m, i) ==
    {t \in METHODS \cup {ErrorToken} :
        i + Len(t) - 1 <= Len(m) /\ SubSeq(m, i, i + Len(t) - 1) = t}

\* Where the text from j on stops: at the next whitespace, or at the end.
NextWhitespace(m, j) ==
    SetMin({e \in j..(Len(m) + 1) : e = Len(m) + 1 \/ m[e] \in Whitespace})

\* The paths that follow a keyword at position i: whitespace, then "/" and
\* what follows it up to the next whitespace, which may be nothing.
PathsAt(m, i) ==
    {SubSeq(m, j, NextWhitespace(m, j) - 1) :
        j \in {j \in 1..Len(m) :
                  /\ m[j] = "/"
                  /\ \E t \in KeywordsAt(m, i) :
                        /\ i + Len(t) < j
                        /\ \A x \in (i + Len(t))..(j - 1) : m[x] \in Whitespace}}

\* The path at the earliest position where a keyword is followed by one, or
\* <<>> when there is none.
EarliestPath(m) ==
    IF \A i \in 1..Len(m) : PathsAt(m, i) = {} THEN <<>>
    ELSE CHOOSE path \in PathsAt(m, SetMin({i \in 1..Len(m) : PathsAt(m, i) # {}})) : TRUE

\* C15: a request record parses, and its handler is the path that follows a
\* method or "Error:" and whitespace, from "/" to the next whitespace, the
\* bare "/" included, at the earliest such position of the message; where
\* the message has none, the record has no handler.
C15_HandlerIsEarliestPath ==
    parsed =>
        /\ data_out # None
        /\ data_out.message \in MessageSamples
        /\ data_out.component = REQUEST =>
              IF EarliestPath(data_out.message) = <<>>
              THEN "handler" \notin DOMAIN data_out
              ELSE /\ "handler" \in DOMAIN data_out
                   /\ data_out.handler = EarliestPath(data_out.message)

====
